---- MODULE Spec2Model ----
(***************************************************************************)
(* Product configurator API: the Entity Store (four tables), the request   *)
(* handlers of main.py and the queries of data_layer.py they run.          *)
(*                                                                         *)
(* Spec     : requests are served one after the other (a handler is one    *)
(*            step).                                                       *)
(* SpecConc : requests overlap.  db.execute_query commits after every      *)
(*            query, so a handler is a chain of separate transactions and   *)
(*            another request's writes may land between any two of them.   *)
(***************************************************************************)
EXTENDS Integers, FiniteSets, Sequences, TLC

VARIABLES db, resp, gao, ccr

vars == <<db, resp, gao, ccr>>

(* ---------------- bounds and input universes ---------------- *)

MaxTemplates == 2
MaxCategories == 2
MaxChoices == 3
MaxRules == 2

(* The str_ids the requests draw on.  Two templates with two choice names  *)
(* show what crosses templates; one template with three choice names has   *)
(* room for two rules over three choices.                                  *)
TwoTemplates == [templates |-> {"T1", "T2"}, categories |-> {"COLOR", "SIZE"},
                 choices |-> {"a", "b"}]
ThreeChoices == [templates |-> {"T1"}, categories |-> {"COLOR", "SIZE"},
                 choices |-> {"a", "b", "c"}]

RuleTypes == {"REQUIRES", "INCOMPATIBLE_WITH"}
RuleTypeInputs == RuleTypes \cup {"EXCLUDES"}

(* current_selections: a JSON object category str_id -> choice str_id,     *)
(* or no such key in the body.                                             *)
EmptyMap == CHOOSE m \in [{} -> {"a"}] : TRUE
SelectionInputs(U) ==
    {[present |-> FALSE, map |-> EmptyMap]}
      \cup {[present |-> TRUE, map |-> m] :
                m \in UNION {[D -> U.choices] : D \in SUBSET U.categories}}

(* ---------------- the Entity Store ---------------- *)

EmptyStore == [ProductTemplate |-> {}, OptionCategory |-> {},
               OptionChoice |-> {}, CompatibilityRule |-> {}]

(* Primary keys are opaque tokens the store generates; the handlers only   *)
(* compare them.  The model takes, as the key of a new row, the row's      *)
(* parent key and str_id (unique per parent, below), and for a rule its    *)
(* three columns and the number of equal rules already stored: keys stay   *)
(* unique, and stores that differ only in insertion order coincide.        *)
NoId == <<>>

NewTemplateId(st, str_id) == <<str_id>>

NewCategoryId(st, template_id, str_id) == <<template_id, str_id>>

NewChoiceId(st, category_id, str_id) == <<category_id, str_id>>

NewRuleId(st, rule_type, primary_id, secondary_id) ==
    <<rule_type, primary_id, secondary_id,
      Cardinality({r \in st.CompatibilityRule :
                      /\ r.rule_type = rule_type
                      /\ r.primary_choice_id = primary_id
                      /\ r.secondary_choice_id = secondary_id})>>

(* Uniqueness of the human-readable identifiers within their parent scope. *)
TemplateStrIdTaken(st, str_id) ==
    \E pt \in st.ProductTemplate : pt.str_id = str_id

CategoryStrIdTaken(st, template_id, str_id) ==
    \E cat \in st.OptionCategory :
        cat.template_id = template_id /\ cat.str_id = str_id

ChoiceStrIdTaken(st, category_id, str_id) ==
    \E oc \in st.OptionChoice :
        oc.category_id = category_id /\ oc.str_id = str_id

(* An insert either raises psycopg2.Error (err) and leaves the store as it *)
(* was (execute_query rolls back), or commits the row and returns it.      *)
Failed(st) == [err |-> TRUE, st |-> st, id |-> NoId]

insert_product_template(st, str_id) ==
    IF TemplateStrIdTaken(st, str_id) THEN Failed(st)
    ELSE LET id == NewTemplateId(st, str_id) IN
         [err |-> FALSE, id |-> id,
          st |-> [st EXCEPT !.ProductTemplate =
                    @ \cup {[template_id |-> id, str_id |-> str_id]}]]

insert_option_category(st, template_id, str_id) ==
    IF CategoryStrIdTaken(st, template_id, str_id) THEN Failed(st)
    ELSE LET id == NewCategoryId(st, template_id, str_id) IN
         [err |-> FALSE, id |-> id,
          st |-> [st EXCEPT !.OptionCategory =
                    @ \cup {[category_id |-> id, template_id |-> template_id,
                             str_id |-> str_id]}]]

insert_option_choice(st, category_id, str_id) ==
    IF ChoiceStrIdTaken(st, category_id, str_id) THEN Failed(st)
    ELSE LET id == NewChoiceId(st, category_id, str_id) IN
         [err |-> FALSE, id |-> id,
          st |-> [st EXCEPT !.OptionChoice =
                    @ \cup {[choice_id |-> id, category_id |-> category_id,
                             str_id |-> str_id]}]]

insert_compatibility_rule(st, rule_type, primary_id, secondary_id) ==
    LET id == NewRuleId(st, rule_type, primary_id, secondary_id) IN
    [err |-> FALSE, id |-> id,
     st |-> [st EXCEPT !.CompatibilityRule =
               @ \cup {[rule_id |-> id, rule_type |-> rule_type,
                        primary_choice_id |-> primary_id,
                        secondary_choice_id |-> secondary_id]}]]

(* ---------------- queries (data_layer.py) ---------------- *)

(* fetch="one" over a query that may match several rows returns any one of *)
(* them: the result is the set of rows the caller may get.                 *)
find_template_id_by_str_id(st, template_str_id) ==
    {pt \in st.ProductTemplate : pt.str_id = template_str_id}

find_category_id_by_str_id(st, category_str_id) ==
    {cat \in st.OptionCategory : cat.str_id = category_str_id}

InTemplate(st, oc, template_str_id) ==
    \E cat \in st.OptionCategory, pt \in st.ProductTemplate :
        /\ oc.category_id = cat.category_id
        /\ cat.template_id = pt.template_id
        /\ pt.str_id = template_str_id

(* Variant: the lookup without the join that scopes it to the template.    *)
find_choices_for_rule_any_template(st, template_str_id, primary_str_id, secondary_str_id) ==
    {oc \in st.OptionChoice : oc.str_id \in {primary_str_id, secondary_str_id}}

find_choices_for_rule(st, template_str_id, primary_str_id, secondary_str_id) ==
    {oc \in st.OptionChoice :
        /\ InTemplate(st, oc, template_str_id)
        /\ oc.str_id \in {primary_str_id, secondary_str_id}}

(* Variant: the category matched by str_id alone, in any template.         *)
find_target_choices_any_template(st, template_str_id, category_str_id) ==
    {oc \in st.OptionChoice :
        \E ocat \in st.OptionCategory :
            /\ oc.category_id = ocat.category_id
            /\ ocat.str_id = category_str_id}

find_target_choices(st, template_str_id, category_str_id) ==
    {oc \in st.OptionChoice :
        \E ocat \in st.OptionCategory, pt \in st.ProductTemplate :
            /\ oc.category_id = ocat.category_id
            /\ ocat.template_id = pt.template_id
            /\ pt.str_id = template_str_id
            /\ ocat.str_id = category_str_id}

(* selection_pairs: the (category str_id, choice str_id) items of the map  *)
selection_pairs(m) == {<<k, m[k]>> : k \in DOMAIN m}

(* Variant: a pair matched on the choice str_id alone.                     *)
find_selected_choice_uuids_by_choice(st, pairs) ==
    {oc.choice_id : oc \in
        {oc \in st.OptionChoice : \E pair \in pairs : pair[2] = oc.str_id}}

find_selected_choice_uuids(st, pairs) ==
    {oc.choice_id : oc \in
        {oc \in st.OptionChoice :
            \E ocat \in st.OptionCategory :
                /\ oc.category_id = ocat.category_id
                /\ <<ocat.str_id, oc.str_id>> \in pairs}}

(* Variant: the rules read in the stored direction only.                   *)
find_incompatible_uuids_one_way(st, selected_uuids) ==
    {cr.secondary_choice_id : cr \in
        {r \in st.CompatibilityRule :
            /\ r.rule_type = "INCOMPATIBLE_WITH"
            /\ r.primary_choice_id \in selected_uuids}}

find_incompatible_uuids(st, selected_uuids) ==
    {cr.primary_choice_id : cr \in
        {r \in st.CompatibilityRule :
            /\ r.rule_type = "INCOMPATIBLE_WITH"
            /\ r.secondary_choice_id \in selected_uuids}}
    \cup
    {cr.secondary_choice_id : cr \in
        {r \in st.CompatibilityRule :
            /\ r.rule_type = "INCOMPATIBLE_WITH"
            /\ r.primary_choice_id \in selected_uuids}}

find_required_choices(st, selected_uuids) ==
    {[secondary_choice_id |-> cr.secondary_choice_id,
      category_id |-> oc.category_id] :
        <<cr, oc>> \in
          {p \in st.CompatibilityRule \X st.OptionChoice :
              /\ p[1].secondary_choice_id = p[2].choice_id
              /\ p[1].rule_type = "REQUIRES"
              /\ p[1].primary_choice_id \in selected_uuids}}

(* ---------------- request handlers (main.py) ---------------- *)

(* What a handler leaves behind: the store after it and the HTTP response. *)
(* reads and writes count the queries the handler sent to the store; id is *)
(* the primary key in a 201 body (NoId else)  ; body is the set of choice  *)
(* str_ids in the JSON list of get_available_options.                      *)
Response(op, args, status, error, body, reads, writes, id) ==
    [op |-> op, args |-> args, status |-> status, error |-> error,
     body |-> body, reads |-> reads, writes |-> writes, id |-> id]

Outcome(st, r) == [db |-> st, resp |-> r]

NoResponse == Response("none", <<>>, 0, "", {}, 0, 0, NoId)

create_product_template(st, data) ==
    LET R(status, error, writes, id) ==
            Response("create_product_template", data, status, error, {}, 0, writes, id)
    IN  IF ~data.ok THEN {Outcome(st, R(400, "missing_fields", 0, NoId))}
        ELSE LET ins == insert_product_template(st, data.template_str_id) IN
             IF ins.err THEN {Outcome(st, R(409, "database_error", 1, NoId))}
             ELSE {Outcome(ins.st, R(201, "", 1, ins.id))}

create_option_category(st, template_str_id, data) ==
    LET args == [template_str_id |-> template_str_id, data |-> data]
        R(status, error, reads, writes, id) ==
            Response("create_option_category", args, status, error, {}, reads, writes, id)
    IN  IF ~data.ok THEN {Outcome(st, R(400, "missing_fields", 0, 0, NoId))}
        ELSE LET found == find_template_id_by_str_id(st, template_str_id) IN
             IF found = {} THEN {Outcome(st, R(404, "template_not_found", 1, 0, NoId))}
             ELSE {LET ins == insert_option_category(st, template.template_id,
                                                     data.category_str_id)
                   IN  IF ins.err THEN Outcome(st, R(409, "database_error", 1, 1, NoId))
                       ELSE Outcome(ins.st, R(201, "", 1, 1, ins.id))
                   : template \in found}

create_option_choice(st, category_str_id, data) ==
    LET args == [category_str_id |-> category_str_id, data |-> data]
        R(status, error, reads, writes, id) ==
            Response("create_option_choice", args, status, error, {}, reads, writes, id)
    IN  IF ~data.ok THEN {Outcome(st, R(400, "missing_fields", 0, 0, NoId))}
        ELSE LET found == find_category_id_by_str_id(st, category_str_id) IN
             IF found = {} THEN {Outcome(st, R(404, "category_not_found", 1, 0, NoId))}
             ELSE {LET ins == insert_option_choice(st, category.category_id,
                                                   data.choice_str_id)
                   IN  IF ins.err THEN Outcome(st, R(409, "database_error", 1, 1, NoId))
                       ELSE Outcome(ins.st, R(201, "", 1, 1, ins.id))
                   : category \in found}

(* choice_map = {choice['str_id']: choice['choice_id'] for choice in       *)
(* choices}: one entry per str_id; of two rows with the same str_id the    *)
(* one the store returned last wins, so the maps are all the ways to pick  *)
(* one row per str_id.                                                     *)
choice_maps(choices) ==
    LET keys == {c.str_id : c \in choices} IN
    {m \in [keys -> {c.choice_id : c \in choices}] :
        \A k \in keys : \E c \in choices : c.str_id = k /\ c.choice_id = m[k]}

(* Lines 109-121: what the handler does with the rows of the lookup.       *)
admit_rule(st, args, choices) ==
    LET data == args.data
        R(status, error, writes, id) ==
            Response("create_compatibility_rule", args, status, error, {}, 1, writes, id)
    IN  IF Cardinality(choices) # 2
        THEN {Outcome(st, R(404, "reference_error", 0, NoId))}
        ELSE {IF /\ data.primary_choice_str_id \in DOMAIN choice_map
                 /\ data.secondary_choice_str_id \in DOMAIN choice_map
              THEN LET ins == insert_compatibility_rule(st, data.rule_type,
                                  choice_map[data.primary_choice_str_id],
                                  choice_map[data.secondary_choice_str_id])
                   IN  IF ins.err THEN Outcome(st, R(409, "database_error", 1, NoId))
                       ELSE Outcome(ins.st, R(201, "", 1, ins.id))
              ELSE Outcome(st, R(500, "KeyError", 0, NoId))
              : choice_map \in choice_maps(choices)}

(* Variant: no self-reference check.                                       *)
caller_input_error_no_self_check(args) ==
    LET data == args.data
        R(error) == Response("create_compatibility_rule", args, 400, error, {}, 0, 0, NoId)
    IN  IF ~data.ok THEN {R("missing_fields")}
        ELSE IF data.rule_type \notin {"REQUIRES", "INCOMPATIBLE_WITH"}
        THEN {R("bad_rule_type")}
        ELSE {}

(* Lines 88-101: the checks made before the store is touched.  The result  *)
(* is the 400 response, or {} when the request passes them.                *)
caller_input_error(args) ==
    LET data == args.data
        R(error) == Response("create_compatibility_rule", args, 400, error, {}, 0, 0, NoId)
    IN  IF ~data.ok THEN {R("missing_fields")}
        ELSE IF data.rule_type \notin {"REQUIRES", "INCOMPATIBLE_WITH"}
        THEN {R("bad_rule_type")}
        ELSE IF data.primary_choice_str_id = data.secondary_choice_str_id
        THEN {R("self_reference")}
        ELSE {}

create_compatibility_rule(st, template_str_id, data) ==
    LET args == [template_str_id |-> template_str_id, data |-> data]
        rejected == caller_input_error(args)
    IN  IF rejected # {} THEN {Outcome(st, r) : r \in rejected}
        ELSE admit_rule(st, args,
                 find_choices_for_rule(st, template_str_id,
                     data.primary_choice_str_id, data.secondary_choice_str_id))

(* Variant: the filter without the whitelist of required choices.         *)
available_options_no_whitelist(target_choices, incompatible_uuids, required_results, first) ==
    {choice \in target_choices : choice.choice_id \notin incompatible_uuids}

(* Variant: the whitelist tested before the incompatible list.             *)
available_options_required_first(target_choices, incompatible_uuids, required_results, first) ==
    LET target_category_id == first.category_id
        required_in_target_category ==
            {row.secondary_choice_id : row \in
                {r \in required_results : r.category_id = target_category_id}}
    IN  {choice \in target_choices :
            IF required_in_target_category # {}
            THEN choice.choice_id \in required_in_target_category
            ELSE choice.choice_id \notin incompatible_uuids}

(* Lines 181-195: the filter over target_choices.  first is                *)
(* target_choices[0], whichever row the store returned first.              *)
available_options(target_choices, incompatible_uuids, required_results, first) ==
    LET target_category_id == first.category_id
        required_in_target_category ==
            {row.secondary_choice_id : row \in
                {r \in required_results : r.category_id = target_category_id}}
    IN  {choice \in target_choices :
            /\ choice.choice_id \notin incompatible_uuids
            /\ ~(/\ required_in_target_category # {}
                 /\ choice.choice_id \notin required_in_target_category)}

(* The JSON list, as the set of str_ids of its items.                      *)
jsonify(rows) == {row.str_id : row \in rows}

current_selections(data) == IF data.present THEN data.map ELSE EmptyMap

get_available_options(st, template_str_id, target_category_str_id, data) ==
    LET args == [template_str_id |-> template_str_id,
                 target_category_str_id |-> target_category_str_id,
                 data |-> data]
        R(body, reads) ==
            Response("get_available_options", args, 200, "", body, reads, 0, NoId)
        target_choices == find_target_choices(st, template_str_id, target_category_str_id)
        selected_uuids ==
            find_selected_choice_uuids(st, selection_pairs(current_selections(data)))
    IN  IF target_choices = {} THEN {Outcome(st, R({}, 1))}
        ELSE IF DOMAIN current_selections(data) = {}
        THEN {Outcome(st, R(jsonify(target_choices), 1))}
        ELSE IF selected_uuids = {}
        THEN {Outcome(st, R(jsonify(target_choices), 2))}
        ELSE {Outcome(st, R(jsonify(available_options(target_choices,
                                find_incompatible_uuids(st, selected_uuids),
                                find_required_choices(st, selected_uuids),
                                first)), 4))
              : first \in target_choices}

(* ---------------- requests served one at a time ---------------- *)

WithinBounds(st) ==
    /\ Cardinality(st.ProductTemplate) <= MaxTemplates
    /\ Cardinality(st.OptionCategory) <= MaxCategories
    /\ Cardinality(st.OptionChoice) <= MaxChoices
    /\ Cardinality(st.CompatibilityRule) <= MaxRules

(* Request bodies; ok is FALSE when a required field is missing.           *)
TemplateData(U) ==
    {[ok |-> FALSE, template_str_id |-> "T1"]}
      \cup {[ok |-> TRUE, template_str_id |-> s] : s \in U.templates}

CategoryData(U) ==
    {[ok |-> FALSE, category_str_id |-> "COLOR"]}
      \cup {[ok |-> TRUE, category_str_id |-> s] : s \in U.categories}

ChoiceData(U) ==
    {[ok |-> FALSE, choice_str_id |-> "a"]}
      \cup {[ok |-> TRUE, choice_str_id |-> s] : s \in U.choices}

RuleData(U) ==
    {[ok |-> FALSE, rule_type |-> "REQUIRES",
      primary_choice_str_id |-> "a", secondary_choice_str_id |-> "a"]}
      \cup [ok : {TRUE}, rule_type : RuleTypeInputs,
            primary_choice_str_id : U.choices,
            secondary_choice_str_id : U.choices]

Idle == [pc |-> "idle"]

(* One worker serves a request at a time: the handler runs, its response  *)
(* goes out, and close_db (the teardown of the request) ends the request. *)
Serve(outcomes) ==
    /\ resp = NoResponse
    /\ \E out \in outcomes :
        /\ WithinBounds(out.db)
        /\ db' = out.db
        /\ resp' = out.resp
        /\ UNCHANGED <<gao, ccr>>

CreateProductTemplate(U) ==
    \E data \in TemplateData(U) : Serve(create_product_template(db, data))

CreateOptionCategory(U) ==
    \E t \in U.templates, data \in CategoryData(U) :
        Serve(create_option_category(db, t, data))

CreateOptionChoice(U) ==
    \E c \in U.categories, data \in ChoiceData(U) :
        Serve(create_option_choice(db, c, data))

CreateCompatibilityRule(U) ==
    \E t \in U.templates, data \in RuleData(U) :
        Serve(create_compatibility_rule(db, t, data))

GetAvailableOptions(U) ==
    \E t \in U.templates, c \in U.categories, data \in SelectionInputs(U) :
        Serve(get_available_options(db, t, c, data))

close_db ==
    /\ resp # NoResponse
    /\ resp' = NoResponse
    /\ gao' = Idle
    /\ ccr' = Idle
    /\ UNCHANGED db

Init ==
    /\ db = EmptyStore
    /\ resp = NoResponse
    /\ gao = Idle
    /\ ccr = Idle

Next ==
    \/ CreateProductTemplate(TwoTemplates)
    \/ CreateOptionCategory(TwoTemplates)
    \/ CreateOptionChoice(TwoTemplates)
    \/ CreateCompatibilityRule(TwoTemplates)
    \/ GetAvailableOptions(TwoTemplates)
    \/ close_db

Spec == Init /\ [][Next]_vars

NextThree ==
    \/ CreateProductTemplate(ThreeChoices)
    \/ CreateOptionCategory(ThreeChoices)
    \/ CreateOptionChoice(ThreeChoices)
    \/ CreateCompatibilityRule(ThreeChoices)
    \/ GetAvailableOptions(ThreeChoices)
    \/ close_db

SpecThree == Init /\ [][NextThree]_vars

(* ---------------- overlapping requests ---------------- *)

(* execute_query commits at the end of every query (db.py line 37), so a   *)
(* handler that sends several queries runs as several transactions.  One   *)
(* request is followed query by query (gao for get_available_options, ccr  *)
(* for create_compatibility_rule); the requests of the other workers are   *)
(* taken whole and commit between its queries.  Once the followed request  *)
(* has its response, nothing that commits later can change it, so the run  *)
(* goes on from close_db.                                                  *)

(* The store the server starts on: one template with one category of two  *)
(* choices, left by earlier requests.                                      *)
SeededStore ==
    LET t == insert_product_template(EmptyStore, "T1")
        c1 == insert_option_category(t.st, t.id, "COLOR")
        o1 == insert_option_choice(c1.st, c1.id, "a")
        o2 == insert_option_choice(o1.st, c1.id, "b")
    IN  o2.st

(* What the evaluation returns when it runs whole on store st.             *)
Evaluations(st, args) ==
    {o.resp.body : o \in
        get_available_options(st, args.template_str_id,
                              args.target_category_str_id, args.data)}

NoneInFlight == gao.pc = "idle" /\ ccr.pc = "idle" /\ resp = NoResponse

GaoArgs(t, c, data) ==
    [template_str_id |-> t, target_category_str_id |-> c, data |-> data]

GaoResponse(args, body, reads) ==
    Response("get_available_options", args, 200, "", body, reads, 0, NoId)

GaoDone == [gao EXCEPT !.pc = "done"]

(* Lines 146-164: the first query, and the two early returns.  snapshots   *)
(* collects, for every store state there is while the request runs, what   *)
(* the evaluation gives on that state.                                     *)
GaoFindTargetChoices ==
    \E t \in TwoTemplates.templates, c \in TwoTemplates.categories,
       data \in SelectionInputs(TwoTemplates) :
        LET args == GaoArgs(t, c, data)
            target_choices == find_target_choices(db, t, c)
            started == [pc |-> "find_selected_choice_uuids", args |-> args,
                        target_choices |-> target_choices, selected_uuids |-> {},
                        incompatible_uuids |-> {},
                        snapshots |-> Evaluations(db, args)]
        IN  /\ NoneInFlight
            /\ IF target_choices = {}
               THEN /\ resp' = GaoResponse(args, {}, 1)
                    /\ gao' = [started EXCEPT !.pc = "done"]
               ELSE IF DOMAIN current_selections(data) = {}
               THEN /\ resp' = GaoResponse(args, jsonify(target_choices), 1)
                    /\ gao' = [started EXCEPT !.pc = "done"]
               ELSE /\ resp' = resp
                    /\ gao' = started
            /\ UNCHANGED <<db, ccr>>

(* Lines 166-173. *)
GaoFindSelectedChoiceUuids ==
    /\ gao.pc = "find_selected_choice_uuids"
    /\ LET selected_uuids ==
               find_selected_choice_uuids(db,
                   selection_pairs(current_selections(gao.args.data)))
       IN  IF selected_uuids = {}
           THEN /\ resp' = GaoResponse(gao.args, jsonify(gao.target_choices), 2)
                /\ gao' = GaoDone
           ELSE /\ resp' = resp
                /\ gao' = [gao EXCEPT !.pc = "find_incompatible_uuids",
                                      !.selected_uuids = selected_uuids]
    /\ UNCHANGED <<db, ccr>>

(* Lines 175-176. *)
GaoFindIncompatibleUuids ==
    /\ gao.pc = "find_incompatible_uuids"
    /\ gao' = [gao EXCEPT !.pc = "find_required_choices",
                          !.incompatible_uuids =
                              find_incompatible_uuids(db, gao.selected_uuids)]
    /\ UNCHANGED <<db, resp, ccr>>

(* Lines 178-195. *)
GaoFindRequiredChoices ==
    /\ gao.pc = "find_required_choices"
    /\ \E first \in gao.target_choices :
          resp' = GaoResponse(gao.args,
                      jsonify(available_options(gao.target_choices,
                                  gao.incompatible_uuids,
                                  find_required_choices(db, gao.selected_uuids),
                                  first)), 4)
    /\ gao' = GaoDone
    /\ UNCHANGED <<db, ccr>>

(* Lines 88-110: the checks and the lookup.  The request goes on to the    *)
(* insert when the rows of the lookup let it.                              *)
CcrFindChoicesForRule ==
    \E t \in TwoTemplates.templates, data \in RuleData(TwoTemplates) :
        LET args == [template_str_id |-> t, data |-> data]
            rejected == caller_input_error(args)
            choices == find_choices_for_rule(db, t, data.primary_choice_str_id,
                                             data.secondary_choice_str_id)
            refused == {o \in admit_rule(db, args, choices) : o.resp.writes = 0}
        IN  /\ NoneInFlight
            /\ IF rejected # {}
               THEN /\ resp' \in rejected
                    /\ ccr' = [pc |-> "done", args |-> args, choices |-> {}]
               ELSE IF refused # {}
               THEN /\ \E o \in refused : resp' = o.resp
                    /\ ccr' = [pc |-> "done", args |-> args, choices |-> choices]
               ELSE /\ resp' = resp
                    /\ ccr' = [pc |-> "insert_compatibility_rule",
                               args |-> args, choices |-> choices]
            /\ UNCHANGED <<db, gao>>

(* Lines 112-121: the insert, in a transaction of its own. *)
CcrInsertCompatibilityRule ==
    /\ ccr.pc = "insert_compatibility_rule"
    /\ \E out \in admit_rule(db, ccr.args, ccr.choices) :
          /\ WithinBounds(out.db)
          /\ db' = out.db
          /\ resp' = out.resp
    /\ ccr' = [ccr EXCEPT !.pc = "done"]
    /\ UNCHANGED gao

(* A request of another worker commits.                                    *)
Commit(outcomes) ==
    /\ resp = NoResponse
    /\ \E out \in outcomes :
          /\ out.db # db
          /\ WithinBounds(out.db)
          /\ db' = out.db
          /\ gao' = IF gao.pc = "idle" THEN gao
                    ELSE [gao EXCEPT !.snapshots = @ \cup Evaluations(out.db, gao.args)]
    /\ UNCHANGED <<resp, ccr>>

OtherCreateProductTemplate ==
    \E data \in TemplateData(TwoTemplates) :
        Commit(create_product_template(db, data))

OtherCreateOptionCategory ==
    \E t \in TwoTemplates.templates, data \in CategoryData(TwoTemplates) :
        Commit(create_option_category(db, t, data))

OtherCreateOptionChoice ==
    \E c \in TwoTemplates.categories, data \in ChoiceData(TwoTemplates) :
        Commit(create_option_choice(db, c, data))

OtherCreateCompatibilityRule ==
    \E t \in TwoTemplates.templates, data \in RuleData(TwoTemplates) :
        Commit(create_compatibility_rule(db, t, data))

InitConc ==
    /\ db = SeededStore
    /\ resp = NoResponse
    /\ gao = Idle
    /\ ccr = Idle

NextConc ==
    \/ GaoFindTargetChoices
    \/ GaoFindSelectedChoiceUuids
    \/ GaoFindIncompatibleUuids
    \/ GaoFindRequiredChoices
    \/ CcrFindChoicesForRule
    \/ CcrInsertCompatibilityRule
    \/ OtherCreateProductTemplate
    \/ OtherCreateOptionCategory
    \/ OtherCreateOptionChoice
    \/ OtherCreateCompatibilityRule
    \/ close_db

SpecConc == InitConc /\ [][NextConc]_vars

(* ---------------- vocabulary of the properties ---------------- *)

CategoryOf(oc) == CHOOSE cat \in db.OptionCategory : cat.category_id = oc.category_id

TemplateOf(oc) ==
    CHOOSE pt \in db.ProductTemplate : pt.template_id = CategoryOf(oc).template_id

ChoiceById(id) == CHOOSE oc \in db.OptionChoice : oc.choice_id = id

(* The choices of category c of template t.                                *)
CategoryChoices(t, c) ==
    {oc \in db.OptionChoice : CategoryOf(oc).str_id = c /\ TemplateOf(oc).str_id = t}

(* The choices of template t with str_id s.                                *)
NamedInTemplate(t, s) ==
    {oc \in db.OptionChoice : TemplateOf(oc).str_id = t /\ oc.str_id = s}

(* A (category str_id, choice str_id) pair resolves when some choice with  *)
(* that str_id sits in a category with that str_id.                        *)
ResolvesTo(k, v) ==
    {oc \in db.OptionChoice : CategoryOf(oc).str_id = k /\ oc.str_id = v}

Resolved(m) == UNION {ResolvesTo(k, m[k]) : k \in DOMAIN m}

Rules(type) == {r \in db.CompatibilityRule : r.rule_type = type}

(* oc is an endpoint of an INCOMPATIBLE_WITH rule whose other endpoint is  *)
(* in selected.                                                            *)
IncompatibleWith(oc, selected) ==
    \E r \in Rules("INCOMPATIBLE_WITH"), x \in selected :
        \/ r.primary_choice_id = x.choice_id /\ r.secondary_choice_id = oc.choice_id
        \/ r.secondary_choice_id = x.choice_id /\ r.primary_choice_id = oc.choice_id

RequiredBy(oc, selected) ==
    \E r \in Rules("REQUIRES"), x \in selected :
        r.primary_choice_id = x.choice_id /\ r.secondary_choice_id = oc.choice_id

Evaluated == resp.op = "get_available_options"
Selection == current_selections(resp.args.data)
Target == CategoryChoices(resp.args.template_str_id, resp.args.target_category_str_id)
Returned(oc) == oc.str_id \in resp.body

Admission == resp.op = "create_compatibility_rule" /\ resp.args.data.ok

(* ---------------- C1 ---------------- *)

(* C1: symmetric incompatibility.  After GetAvailableOptions, no choice of *)
(* the target category that an INCOMPATIBLE_WITH rule links to a resolved  *)
(* selected choice is returned, whichever endpoint of the rule was stored  *)
(* as primary.                                                             *)
C1_SymmetricIncompatibility ==
    Evaluated =>
        \A r \in Rules("INCOMPATIBLE_WITH") :
            LET A == ChoiceById(r.primary_choice_id)
                B == ChoiceById(r.secondary_choice_id)
            IN  /\ (A \in Resolved(Selection) /\ B \in Target) => ~Returned(B)
                /\ (B \in Resolved(Selection) /\ A \in Target) => ~Returned(A)

(* The secondary endpoint is selected and the primary one, in the target   *)
(* category, is left out while another choice of the category is returned. *)
C1_Witness ==
    /\ Evaluated
    /\ \E r \in Rules("INCOMPATIBLE_WITH") :
           /\ ChoiceById(r.secondary_choice_id) \in Resolved(Selection)
           /\ ChoiceById(r.primary_choice_id) \notin Resolved(Selection)
           /\ ChoiceById(r.primary_choice_id) \in Target
    /\ resp.body # {}

(* ---------------- C2 ---------------- *)

RequiredInTarget == {oc \in Target : RequiredBy(oc, Resolved(Selection))}

(* C2: requirement whitelist with union semantics.  When some REQUIRES     *)
(* rule leads from a resolved selected choice into the target category,    *)
(* the result is exactly the required choices of the category that are not *)
(* incompatible with the selection.                                        *)
C2_RequirementWhitelist ==
    (Evaluated /\ RequiredInTarget # {}) =>
        resp.body = {oc.str_id : oc \in
                        {x \in RequiredInTarget :
                            ~IncompatibleWith(x, Resolved(Selection))}}

(* Two selected choices require two different choices of the target        *)
(* category, and both are returned.                                        *)
C2_Witness ==
    /\ Evaluated
    /\ \E r1, r2 \in Rules("REQUIRES") :
           /\ r1.primary_choice_id # r2.primary_choice_id
           /\ r1.secondary_choice_id # r2.secondary_choice_id
           /\ ChoiceById(r1.primary_choice_id) \in Resolved(Selection)
           /\ ChoiceById(r2.primary_choice_id) \in Resolved(Selection)
           /\ ChoiceById(r1.secondary_choice_id) \in Target
           /\ ChoiceById(r2.secondary_choice_id) \in Target
    /\ Cardinality(resp.body) = 2

(* ---------------- C3 ---------------- *)

(* C3: incompatibility precedence.  A target choice that is required by a  *)
(* selected choice and incompatible with a selected choice is not returned.*)
C3_IncompatibilityPrecedence ==
    Evaluated =>
        \A oc \in Target :
            (/\ RequiredBy(oc, Resolved(Selection))
             /\ IncompatibleWith(oc, Resolved(Selection))) => ~Returned(oc)

C3_Witness ==
    /\ Evaluated
    /\ \E oc \in Target :
           /\ RequiredBy(oc, Resolved(Selection))
           /\ IncompatibleWith(oc, Resolved(Selection))
           /\ ~Returned(oc)

(* ---------------- C4 ---------------- *)

(* C4: no-selection identity.  With an empty or absent current_selections  *)
(* the result is the full choice list of the target category, whatever     *)
(* rules are stored.                                                       *)
C4_NoSelectionIdentity ==
    (Evaluated /\ DOMAIN Selection = {}) =>
        /\ resp.status = 200
        /\ resp.body = {oc.str_id : oc \in Target}

(* current_selections is absent, the category has two choices and a rule   *)
(* excludes one of them for some selection.                                *)
C4_Witness ==
    /\ Evaluated
    /\ ~resp.args.data.present
    /\ Cardinality(Target) = 2
    /\ \E r \in Rules("INCOMPATIBLE_WITH") : ChoiceById(r.secondary_choice_id) \in Target
    /\ Cardinality(resp.body) = 2

(* ---------------- C5 ---------------- *)

(* The selection without the pairs that resolve to no choice.              *)
ResolvablePart(m) ==
    [k \in {x \in DOMAIN m : ResolvesTo(x, m[x]) # {}} |-> m[k]]

(* C5: unresolvable-selection degradation.  A selection of which no pair   *)
(* resolves gets the full choice list and no error; and any selection gets *)
(* what the same selection without its unresolvable pairs gets.            *)
C5_UnresolvableDegradation ==
    Evaluated =>
        /\ Resolved(Selection) = {} =>
              /\ resp.status = 200
              /\ resp.error = ""
              /\ resp.body = {oc.str_id : oc \in Target}
        /\ resp.body \in
              {o.resp.body : o \in
                  get_available_options(db, resp.args.template_str_id,
                      resp.args.target_category_str_id,
                      [present |-> TRUE, map |-> ResolvablePart(Selection)])}

(* One pair resolves, one does not, and a rule narrows the result.         *)
C5_Witness ==
    /\ Evaluated
    /\ \E k1, k2 \in DOMAIN Selection :
           /\ ResolvesTo(k1, Selection[k1]) = {}
           /\ ResolvesTo(k2, Selection[k2]) # {}
    /\ resp.body # {oc.str_id : oc \in Target}

(* ---------------- C6 ---------------- *)

ValidRuleRequest ==
    /\ Admission
    /\ resp.args.data.rule_type \in RuleTypes
    /\ resp.args.data.primary_choice_str_id # resp.args.data.secondary_choice_str_id

(* One of the two str_ids names no choice of the template of the request.  *)
SomeChoiceMissing ==
    \E s \in {resp.args.data.primary_choice_str_id,
              resp.args.data.secondary_choice_str_id} :
        NamedInTemplate(resp.args.template_str_id, s) = {}

(* C6: cross-template rejection.  A valid request of which a str_id names  *)
(* no choice of the named template gets the Reference Error, and no rule.  *)
C6_CrossTemplateRejection ==
    (ValidRuleRequest /\ SomeChoiceMissing) =>
        /\ resp.status = 404
        /\ resp.error = "reference_error"
        /\ resp.writes = 0

(* ---------------- C7 ---------------- *)

CallerInputCase(r) ==
    /\ r.op = "create_compatibility_rule"
    /\ r.args.data.ok
    /\ \/ r.args.data.rule_type \notin RuleTypes
       \/ r.args.data.primary_choice_str_id = r.args.data.secondary_choice_str_id

(* C7: caller input errors never reach storage.  A request with an invalid *)
(* rule_type or with equal choice str_ids is answered 400 without a query  *)
(* and leaves the store as it was; the rule_type is checked first.         *)
C7_CallerInputError ==
    [][(resp = NoResponse /\ CallerInputCase(resp')) =>
          /\ resp'.status = 400
          /\ resp'.reads = 0
          /\ resp'.writes = 0
          /\ db' = db
          /\ resp'.error =
                IF resp'.args.data.rule_type \notin RuleTypes
                THEN "bad_rule_type" ELSE "self_reference"]_vars

(* Both faults at once, on a store where the choice exists in the template *)
(* and rules are stored.                                                   *)
C7_Witness ==
    /\ CallerInputCase(resp)
    /\ resp.args.data.rule_type \notin RuleTypes
    /\ resp.args.data.primary_choice_str_id = resp.args.data.secondary_choice_str_id
    /\ NamedInTemplate(resp.args.template_str_id, resp.args.data.primary_choice_str_id) # {}
    /\ db.CompatibilityRule # {}
    /\ resp.status = 400

(* ---------------- C9 ---------------- *)

(* C9: rule well-formedness.  Every stored rule has a valid type and two   *)
(* distinct, existing choices of one template; the rule a request has just *)
(* created lies in the template the request names.                         *)
C9_RuleWellFormed ==
    /\ \A r \in db.CompatibilityRule :
          /\ r.rule_type \in RuleTypes
          /\ r.primary_choice_id # r.secondary_choice_id
          /\ \E p, q \in db.OptionChoice :
                /\ p.choice_id = r.primary_choice_id
                /\ q.choice_id = r.secondary_choice_id
                /\ TemplateOf(p) = TemplateOf(q)
    /\ (Admission /\ resp.status = 201) =>
          \E r \in db.CompatibilityRule :
              /\ r.rule_id = resp.id
              /\ TemplateOf(ChoiceById(r.primary_choice_id)).str_id
                    = resp.args.template_str_id
              /\ TemplateOf(ChoiceById(r.secondary_choice_id)).str_id
                    = resp.args.template_str_id

(* A rule is created in a template while the other template holds a       *)
(* choice with one of the two str_ids.                                     *)
C9_Witness ==
    /\ Admission
    /\ resp.status = 201
    /\ \E r \in db.CompatibilityRule :
          /\ r.rule_id = resp.id
          /\ \E oc \in db.OptionChoice :
                /\ oc.str_id = ChoiceById(r.primary_choice_id).str_id
                /\ TemplateOf(oc).str_id # resp.args.template_str_id

(* ---------------- C8 ---------------- *)

(* C8: snapshot consistency of evaluation.  The list a request returns is  *)
(* what the evaluation gives on one of the store states there were while   *)
(* the request ran.                                                        *)
C8_SnapshotConsistency ==
    (gao.pc = "done" /\ Evaluated) => resp.body \in gao.snapshots

(* ---------------- C10 ---------------- *)

(* C10: atomic validate-then-insert.  When the rule of a request is        *)
(* inserted, the scoped lookup for its two str_ids still returns the rows  *)
(* the request validated.                                                  *)
C10_AtomicValidateInsert ==
    (ccr.pc = "done" /\ Admission /\ resp.status = 201) =>
        find_choices_for_rule(db, ccr.args.template_str_id,
                              ccr.args.data.primary_choice_str_id,
                              ccr.args.data.secondary_choice_str_id)
            = ccr.choices

====
